---- MODULE Spec2Model ----
(***************************************************************************)
(* State-machine model of the trajectory forecasting engine of             *)
(* src/src/models/prediction.py: monte_carlo_simulation and forecast_path, *)
(* with the geo primitives, the navigability mask and the drift model      *)
(* they call.                                                              *)
(*                                                                         *)
(* Units.  Latitudes and longitudes are integers in hundredths of a degree *)
(* (2000 = 20.00 deg), speeds are integers in hundredths of a knot,        *)
(* headings are integer degrees, hours_ahead and step_hours are integer     *)
(* hours, timestamps are integer minutes.  Aggregated                      *)
(* output coordinates (means and percentiles) are exact rationals; they are*)
(* stored multiplied by Scale, so a raw coordinate x appears in a result   *)
(* as x * Scale.                                                           *)
(***************************************************************************)
EXTENDS Integers, Sequences, FiniteSets, TLC

\* ------------------------------------------------------------------ bounds
\* largest num_simulations drawn
MaxN == 2
\* largest number of simulation steps S of a call
MaxS == 2
\* longest history drawn
MaxHist == 2
\* most update_from_record calls made on one Submarine
MaxCalls == 3
\* most records handed to one SubmarineFleet, and to one run of main
MaxBatch == 2

\* ------------------------------------------------------- program constants
MIN_SPEED_KNOTS == 500
MAX_SPEED_KNOTS == 1000
\* KNOTS_TO_KMH = 1.852, in thousandths
KNOTS_TO_KMH == 1852
\* kilometres per degree of arc on a sphere of EARTH_RADIUS_KM = 6371.0
\* (6371 * pi / 180 = 111.195), in thousandths
KM_PER_DEG == 111195

\* np.nan, written into the cells of retired trials
NaN == -99999
\* a cell of np.empty that was never written
Uninit == -88888

\* an absent optional value (Python None) and a present one
None == <<>>
Some(x) == <<x>>

\* ------------------------------------------------------------ arithmetic
Abs(x) == IF x < 0 THEN -x ELSE x
Sign(x) == IF x > 0 THEN 1 ELSE IF x < 0 THEN -1 ELSE 0
Max2(a, b) == IF a >= b THEN a ELSE b
Min2(a, b) == IF a <= b THEN a ELSE b

RECURSIVE Factorial(_)
Factorial(n) == IF n <= 1 THEN 1 ELSE n * Factorial(n - 1)

\* Common denominator of every mean over at most MaxN + 1 values and of every
\* percentile interpolation (a weight in hundredths).
Scale == 100 * Factorial(MaxN + 1)

RECURSIVE SumOver(_, _)
SumOver(f, K) ==
    IF K = {} THEN 0
    ELSE LET i == CHOOSE j \in K : TRUE IN f[i] + SumOver(f, K \ {i})

\* ------------------------------------------------------ navigability mask
\* prediction._is_water, thresholds in hundredths of a degree
_is_water(lat, lon) ==
    IF 1400 <= lat /\ lat <= 1600 /\ 10900 <= lon /\ lon <= 11100 THEN TRUE
    ELSE IF 500 <= lat /\ lat <= 2000 /\ 10900 <= lon /\ lon <= 12000 THEN TRUE
    ELSE ~( (10000 < lon /\ lon < 12300 /\ 2000 < lat /\ lat < 4500)
         \/ (10200 < lon /\ lon < 11000 /\  800 < lat /\ lat < 2300)
         \/ (10850 < lon /\ lon < 11100 /\ 1800 < lat /\ lat < 2000)
         \/ (11700 < lon /\ lon < 12700 /\  500 < lat /\ lat < 1900)
         \/ (11900 < lon /\ lon < 12300 /\ 2100 < lat /\ lat < 2600) )

\* ------------------------------------------------------------ drift model
\* calculate_current_drift for month = 1 (seasonal_factor = 1.0), evaluated at
\* the centre of each latitude band and rounded to hundredths of a degree per
\* hour: strength = 0.15 * exp(-lat^2/200) / (1 + (lat/20)^2),
\* x_drift = strength * (0.7 * exp(-lat^2/50) + 0.3).
DriftX(lat) ==
    LET a == Abs(lat) IN
    IF a < 250 THEN 15
    ELSE IF a < 750 THEN 9
    ELSE IF a < 1250 THEN 3
    ELSE IF a < 1750 THEN 1
    ELSE 0

\* y_drift = strength * 0.15 * sign(lat)
DriftY(lat) ==
    LET a == Abs(lat) IN
    Sign(lat) * (IF a < 750 THEN 2 ELSE IF a < 1250 THEN 1 ELSE 0)

\* --------------------------------------------------------- geo primitives
\* cos and sin of a heading that is a multiple of 90 degrees
CosDeg(h) == CASE h % 360 = 0 -> 1 [] h % 360 = 180 -> -1 [] OTHER -> 0
SinDeg(h) == CASE h % 360 = 90 -> 1 [] h % 360 = 270 -> -1 [] OTHER -> 0

\* 1 / cos(lat) in thousandths, by 10-degree latitude band (band centre);
\* beyond 85 degrees the meridians converge
SecMilli(lat) ==
    LET a == Abs(lat) IN
    IF a < 1000 THEN 1004
    ELSE IF a < 2000 THEN 1035
    ELSE IF a < 3000 THEN 1103
    ELSE IF a < 4000 THEN 1221
    ELSE IF a < 5000 THEN 1414
    ELSE IF a < 6000 THEN 1743
    ELSE IF a < 7000 THEN 2366
    ELSE IF a < 8000 THEN 3864
    ELSE 11474

\* angular distance (hundredths of a degree) covered at spd (hundredths of a
\* knot) in step_hours: spd * KNOTS_TO_KMH * step_hours / EARTH_RADIUS_KM
ArcOf(spd, step_hours) == (spd * KNOTS_TO_KMH * step_hours) \div KM_PER_DEG

\* latitude of the destination point: arcsin keeps it in [-90, 90]; a
\* meridional step across a pole comes back down the opposite meridian
DestLat(lat, h, arc) ==
    LET raw == lat + arc * CosDeg(h) IN
    IF raw > 9000 THEN 18000 - raw
    ELSE IF raw < -9000 THEN -18000 - raw
    ELSE raw

\* longitude of the destination point before any wrapping (lon1 + atan2(..)):
\* half a turn when the step crosses a pole; cos(lat) is negative for a
\* latitude beyond a pole, which turns an eastward step westward
DestLonRaw(lat, lon, h, arc) ==
    LET raw == lat + arc * CosDeg(h) IN
    IF (Abs(lat) <= 9000) # (Abs(raw) <= 9000) THEN lon + 18000
    ELSE lon + (IF Abs(lat) > 9000 THEN -1 ELSE 1)
                  * ((arc * SinDeg(h) * SecMilli(lat)) \div 1000)

\* (x + 540) % 360 - 180
WrapLon540(x) == ((x + 54000) % 36000) - 18000

\* circular shift used by move_point: (x + 180) % 360 - 180
WrapLon180(x) == ((x + 18000) % 36000) - 18000

\* integer square root (floor), by bisection on lo <= root < hi
RECURSIVE ISqrtIn(_, _, _)
ISqrtIn(n, lo, hi) ==
    IF hi - lo <= 1 THEN lo
    ELSE LET mid == (lo + hi) \div 2
         IN IF mid * mid <= n THEN ISqrtIn(n, mid, hi) ELSE ISqrtIn(n, lo, mid)
\* (46340 is the largest root whose square fits 32 bits)
ISqrt(n) == ISqrtIn(n, 0, Min2(n, 46340) + 1)

\* haversine_distance for nearby points, as an arc in hundredths of a degree:
\* the chord of the latitude difference and of the longitude difference
\* shortened by cos(lat)
haversine_distance(lat1, lon1, lat2, lon2) ==
    LET dy == lat2 - lat1
        dx == ((lon2 - lon1) * 1000) \div SecMilli(lat1)
    IN ISqrt(dy * dy + dx * dx)

\* calculate_bearing on the model's heading grid: atan2(y, x) rounded to the
\* nearest multiple of 90 degrees; atan2(0, 0) = 0
calculate_bearing(lat1, lon1, lat2, lon2) ==
    LET dy == lat2 - lat1
        dx == lon2 - lon1
    IN IF dx = 0 /\ dy = 0 THEN 0
       ELSE IF Abs(dy) >= Abs(dx) THEN (IF dy > 0 THEN 0 ELSE 180)
       ELSE (IF dx > 0 THEN 90 ELSE 270)

\* geo_utils.move_point: destination point, longitude shifted into
\* [-180, 180), then clamp_to_china_coastal (the identity)
move_point(lat, lon, bearing, arc) ==
    <<DestLat(lat, bearing, arc), WrapLon180(DestLonRaw(lat, lon, bearing, arc))>>

\* --------------------------------------------------------------- inputs
\* positions as <<lon, lat>>: on the northern edge of the South China Sea box
\* (a step north leaves the water), in the test area (a step west leaves the
\* water), and on the mainland (not navigable)
WaterEdge == <<11500, 2000>>
TestArea == <<11000, 1500>>
Mainland == <<11000, 2500>>
StartPoints == {WaterEdge, TestArea, Mainland}

\* positions far from the South China Sea: on the equator just west of the
\* antimeridian, and beyond the north pole (latitude 95)
Antimeridian == <<17990, 0>>
BeyondPole == <<11000, 9500>>

\* one history record: {"latitude", "longitude", "timestamp"} (minutes);
\* has_position tells whether the record has both coordinate keys
HistPoints == {TestArea, <<11000, 1510>>, Mainland}
Located(p, t) ==
    [latitude |-> p[2], longitude |-> p[1], timestamp |-> t, has_position |-> TRUE]
\* a record without "latitude" and "longitude"
Unlocated == [latitude |-> 0, longitude |-> 0, timestamp |-> 0, has_position |-> FALSE]
HistRecords ==
    { Located(p, t) : p \in HistPoints, t \in {0, 60} }
       \cup { Located(<<11000, 1510>>, 1), Located(BeyondPole, 60), Unlocated }

RECURSIVE SeqsUpTo(_, _)
SeqsUpTo(S, n) ==
    IF n = 0 THEN {<<>>}
    ELSE LET shorter == SeqsUpTo(S, n - 1)
         IN shorter \cup { Append(q, x) : q \in {r \in shorter : Len(r) = n - 1}, x \in S }

Histories == SeqsUpTo(HistRecords, MaxHist)

\* tracks that turn: north then east (pair bearings 0 and 90), and east,
\* north, then west (pair bearings 90, 0 and 270), one record per hour
Dogleg ==
    << Located(TestArea, 0), Located(<<11000, 1510>>, 60), Located(<<11010, 1510>>, 120) >>
Hook ==
    << Located(TestArea, 0), Located(<<11010, 1500>>, 60), Located(<<11010, 1510>>, 120),
       Located(<<11000, 1510>>, 180) >>
TurningHistories == {Dogleg, Hook}

\* (hours_ahead, step_hours) pairs, step_hours > 0, whose step count stays
\* within MaxS
HourPairs ==
    { hp \in { h \in 0..(6 * MaxS) : h % 3 = 0 } \X {3, 6} : hp[1] \div hp[2] <= MaxS }

\* a heading sample that is negative and smaller in magnitude than half the
\* spacing of the doubles next to 360.0 (2.8e-14 degrees), e.g. -1e-20
NegTiny == -1

\* the <<heading noise in degrees, speed factor in percent, residue>> samples
\* that rng.normal(0, heading_sigma) and rng.normal(1.0, speed_sigma) may
\* return for one trial; the residue is 0, or NegTiny for the heading sample
\* -1e-20.  Exactly <<0, 100, 0>> when both sigmas are 0; with both sigmas
\* positive a turn to either side with the speed doubled or halved; with
\* heading noise only a turn of more than a full circle or the tiny negative
\* sample; with speed noise only a zero or a negative multiplier.
NoiseSamples_sigma_ignored(heading_sigma, speed_sigma) ==
    { <<90, 200, 0>>, <<-90, 50, 0>> }

NoiseSamples(heading_sigma, speed_sigma) ==
    IF heading_sigma = 0 /\ speed_sigma = 0 THEN { <<0, 100, 0>> }
    ELSE IF speed_sigma = 0 THEN { <<-450, 100, 0>>, <<0, 100, NegTiny>> }
    ELSE IF heading_sigma = 0 THEN { <<0, 0, 0>>, <<0, -100, 0>> }
    ELSE { <<90, 200, 0>>, <<-90, 50, 0>> }

\* keyword arguments of one monte_carlo_simulation call.  start is None or
\* the pair <<lon, lat>>; heading and speed are None or Some(value).
MCDirectCalls ==
    { [ fn |-> "monte_carlo_simulation", start |-> st, heading |-> hs[1], speed |-> hs[2],
        history |-> <<>>, hours_ahead |-> hp[1], step_hours |-> hp[2],
        num_simulations |-> n, heading_sigma |-> sg[1], speed_sigma |-> sg[2],
        heading_variation |-> 0 ] :
        st \in StartPoints, hs \in {<<Some(0), Some(700)>>, <<Some(90), Some(2000)>>},
        hp \in HourPairs, n \in 0..MaxN, sg \in {<<0, 0>>, <<30, 5>>} }

\* a call that leaves lat/lon/heading/speed out, as forecast_all_subs makes it
MCHistoryCalls ==
    { [ fn |-> "monte_carlo_simulation", start |-> None, heading |-> None, speed |-> None,
        history |-> h, hours_ahead |-> hp[1], step_hours |-> hp[2],
        num_simulations |-> n, heading_sigma |-> 30, speed_sigma |-> 5,
        heading_variation |-> 0 ] :
        h \in Histories, hp \in {<<6, 3>>, <<6, 6>>}, n \in {1} }

\* a one-record history together with explicit lat/lon/heading/speed
MCMixedCalls ==
    { [ fn |-> "monte_carlo_simulation", start |-> WaterEdge, heading |-> Some(0),
        speed |-> Some(700), history |-> <<r>>, hours_ahead |-> 6, step_hours |-> 3,
        num_simulations |-> 1, heading_sigma |-> 30, speed_sigma |-> 5,
        heading_variation |-> 0 ] : r \in HistRecords }

\* calls that start far from the South China Sea
MCRemoteCalls ==
    { [ fn |-> "monte_carlo_simulation", start |-> st, heading |-> Some(h),
        speed |-> Some(700), history |-> <<>>, hours_ahead |-> 6, step_hours |-> 3,
        num_simulations |-> 1, heading_sigma |-> 0, speed_sigma |-> 0,
        heading_variation |-> 0 ] :
        st \in {Antimeridian, BeyondPole}, h \in {0, 90} }

\* calls with heading noise only or speed noise only, from headings on both
\* sides of [0, 360) and speeds on both sides of the speed band
MCNoiseCalls ==
    { [ fn |-> "monte_carlo_simulation", start |-> TestArea, heading |-> hs[1],
        speed |-> hs[2], history |-> <<>>, hours_ahead |-> 6, step_hours |-> 3,
        num_simulations |-> 1, heading_sigma |-> sg[1], speed_sigma |-> sg[2],
        heading_variation |-> 0 ] :
        hs \in {<<Some(0), Some(700)>>, <<Some(450), Some(0)>>, <<Some(-90), Some(-300)>>},
        sg \in {<<30, 0>>, <<0, 200>>} }

\* history-seeded calls whose track turns
MCTurningCalls ==
    { [ fn |-> "monte_carlo_simulation", start |-> None, heading |-> None, speed |-> None,
        history |-> h, hours_ahead |-> 6, step_hours |-> 3,
        num_simulations |-> 1, heading_sigma |-> 30, speed_sigma |-> 5,
        heading_variation |-> 0 ] : h \in TurningHistories }

MCCalls ==
    MCDirectCalls \cup MCHistoryCalls \cup MCMixedCalls \cup MCRemoteCalls
       \cup MCNoiseCalls \cup MCTurningCalls

FPCalls ==
    { [ fn |-> "forecast_path", start |-> None, heading |-> None, speed |-> None,
        history |-> h, hours_ahead |-> hp[1], step_hours |-> hp[2],
        num_simulations |-> 0, heading_sigma |-> 0, speed_sigma |-> 0,
        heading_variation |-> hv ] :
        h \in Histories, hp \in HourPairs, hv \in {0, 90} }
      \cup
    { [ fn |-> "forecast_path", start |-> None, heading |-> None, speed |-> None,
        history |-> h, hours_ahead |-> 6, step_hours |-> 3,
        num_simulations |-> 0, heading_sigma |-> 0, speed_sigma |-> 0,
        heading_variation |-> 90 ] : h \in TurningHistories }

NoCall ==
    [ fn |-> "", start |-> None, heading |-> None, speed |-> None, history |-> <<>>,
      hours_ahead |-> 0, step_hours |-> 1, num_simulations |-> 0, heading_sigma |-> 0,
      speed_sigma |-> 0, heading_variation |-> 0 ]

\* ---------------------------------------------------------------- state
VARIABLES
    pc,           \* "idle", "loop" (inside the step loop) or "done"
    call,         \* the arguments of the call being served
    lat, lon,     \* the start position after seeding (lines 97-98)
    N, S,         \* trial count and step count (lines 122-123)
    lats, lons,   \* N x (S+1) position arrays (lines 124-126)
    hdg, spd,     \* per-trial heading and speed (lines 130-131)
    valid_mask,   \* per-trial alive flag (line 134)
    s,            \* loop variable of the step loop (line 136)
    result,       \* the value returned
    noise,        \* the samples drawn in the latest step, one per alive trial
    water_tests,  \* per trial: navigability tests made on it in the latest step
    iters,        \* iterations of the step loop body executed
    dead_since,   \* per trial: 0, or the first step at which it was not alive
    sub,          \* one Submarine object (submarine.py 61-68)
    sub_call,     \* the latest Submarine.update_from_record call and its outcome
    fleet,        \* SubmarineFleet._subs: the Submarine objects by sub_id
    fleet_call,   \* the latest SubmarineFleet.update_from_records call and its outcome
    run           \* the latest run of main: input, Submarine objects, forecasts

\* the engine state and the state of the registry layer
engine == <<pc, call, lat, lon, N, S, lats, lons, hdg, spd, valid_mask, s, result,
            noise, water_tests, iters, dead_since>>
registry == <<sub, sub_call, fleet, fleet_call, run>>

vars ==
    <<pc, call, lat, lon, N, S, lats, lons, hdg, spd, valid_mask, s, result,
      noise, water_tests, iters, dead_since, sub, sub_call, fleet, fleet_call, run>>

Trials == 1..N

\* --------------------------------------------------------------- results
\* a raw coordinate pair as an output point
ScalePt(p) == IF p = None THEN None ELSE <<p[1] * Scale, p[2] * Scale>>

NoResult ==
    [ status |-> "none", central_path |-> <<>>, left_path |-> <<>>, right_path |-> <<>>,
      forecast_times |-> <<>>, cone_polygon |-> None, runs_kept |-> None ]

\* raise ValueError
Raised == [NoResult EXCEPT !.status = "raised"]

\* return {}
EmptyDict == [NoResult EXCEPT !.status = "empty"]

\* the single-point result of lines 88-95, 112-119 and 183-190
Degenerate(p) ==
    [ status |-> "ok", central_path |-> <<ScalePt(p)>>, left_path |-> <<ScalePt(p)>>,
      right_path |-> <<ScalePt(p)>>, forecast_times |-> <<0>>,
      cone_polygon |-> Some(<<ScalePt(p)>>), runs_kept |-> Some(0) ]

Reverse(q) == [k \in 1..Len(q) |-> q[Len(q) + 1 - k]]

\* cone_polygon = right_path + left_path[::-1], closed if it is not
ConePolygon_swapped(left_path, right_path) ==
    LET ring == left_path \o Reverse(right_path)
    IN IF ring[1] # ring[Len(ring)] THEN Append(ring, ring[1]) ELSE ring

ConePolygon(left_path, right_path) ==
    LET ring == right_path \o Reverse(left_path)
    IN IF ring[1] # ring[Len(ring)] THEN Append(ring, ring[1]) ELSE ring

\* ------------------------------------------------------------ aggregation
\* the rows of K whose cell in column k is not NaN
NotNan(mat, K, k) == {i \in K : mat[i][k] # NaN}

\* np.nanmean of column k over the rows K, times Scale
NanMean(mat, K, k) ==
    LET J == NotNan(mat, K, k)
    IN (Scale * SumOver([i \in J |-> mat[i][k]], J)) \div Cardinality(J)

\* the r-th smallest (r from 0) of the values mat[i][k], i in J
KthSmallest(mat, J, k, r) ==
    CHOOSE v \in {mat[i][k] : i \in J} :
        /\ Cardinality({i \in J : mat[i][k] < v}) <= r
        /\ r < Cardinality({i \in J : mat[i][k] <= v})

\* np.nanpercentile(.., q) of column k over the rows K (linear
\* interpolation between the two nearest ranks), times Scale
NanPercentile(mat, K, k, q) ==
    LET J == NotNan(mat, K, k)
        pos == q * (Cardinality(J) - 1)
        lo == pos \div 100
        fr == pos % 100
        vlo == KthSmallest(mat, J, k, lo)
        vhi == IF fr = 0 THEN vlo ELSE KthSmallest(mat, J, k, lo + 1)
    IN Scale * vlo + (Scale \div 100) * fr * (vhi - vlo)

CentralPoint(la, lo, K, k) == <<NanMean(lo, K, k), NanMean(la, K, k)>>
LeftPoint_highest(la, lo, K, k) ==
    <<NanPercentile(lo, K, k, 100), NanPercentile(la, K, k, 100)>>

LeftPoint(la, lo, K, k) == <<NanPercentile(lo, K, k, 5), NanPercentile(la, K, k, 5)>>
RightPoint(la, lo, K, k) == <<NanPercentile(lo, K, k, 95), NanPercentile(la, K, k, 95)>>

\* the rows that enter the statistics: valid_lats = lats[valid_mask]
AggRows_all(mask) == DOMAIN mask

AggRows(mask) == {i \in DOMAIN mask : mask[i]}

\* line 215 and lines 319, 338: the hours from the start of each point
ForecastTimes_from_one(steps, step_hours) == [k \in 1..(steps + 1) |-> k * step_hours]

ForecastTimes(steps, step_hours) == [k \in 1..(steps + 1) |-> (k - 1) * step_hours]

\* lines 196-218
FullResult(la, lo, mask, steps, step_hours) ==
    LET K == AggRows(mask)
        central == [k \in 1..(steps + 1) |-> CentralPoint(la, lo, K, k - 1)]
        left == [k \in 1..(steps + 1) |-> LeftPoint(la, lo, K, k - 1)]
        right == [k \in 1..(steps + 1) |-> RightPoint(la, lo, K, k - 1)]
    IN [ status |-> "ok", central_path |-> central, left_path |-> left,
         right_path |-> right,
         forecast_times |-> ForecastTimes(steps, step_hours),
         cone_polygon |-> Some(ConePolygon(left, right)),
         runs_kept |-> Some(Cardinality({i \in DOMAIN mask : mask[i]})) ]

\* every entry held at the start point when no trial is left
MCResult_held(la, lo, mask, steps, step_hours, start) ==
    IF Cardinality({i \in DOMAIN mask : mask[i]}) = 0
    THEN [ Degenerate(start) EXCEPT
             !.central_path = [k \in 1..(steps + 1) |-> ScalePt(start)],
             !.left_path = [k \in 1..(steps + 1) |-> ScalePt(start)],
             !.right_path = [k \in 1..(steps + 1) |-> ScalePt(start)],
             !.forecast_times = [k \in 1..(steps + 1) |-> (k - 1) * step_hours] ]
    ELSE FullResult(la, lo, mask, steps, step_hours)

\* lines 180-218: runs_kept == 0 gives the single-point result
MCResult(la, lo, mask, steps, step_hours, start) ==
    IF Cardinality({i \in DOMAIN mask : mask[i]}) = 0
    THEN Degenerate(start)
    ELSE FullResult(la, lo, mask, steps, step_hours)

\* ------------------------------------------------ monte_carlo_simulation
\* the state of an idle engine and of a call that returned before the
\* arrays were allocated
NoArrays ==
    /\ lat' = 0 /\ lon' = 0 /\ N' = 0 /\ S' = 0
    /\ lats' = <<>> /\ lons' = <<>> /\ hdg' = <<>> /\ spd' = <<>>
    /\ valid_mask' = <<>> /\ s' = 0
    /\ noise' = <<>> /\ water_tests' = <<>> /\ iters' = 0 /\ dead_since' = <<>>

\* lines 99-103: base speed from the last two records, in hundredths of a knot
SeedSpeed_unclamped(prev, last) ==
    LET dt_min == Max2(60, last.timestamp - prev.timestamp)
        arc == haversine_distance(prev.latitude, prev.longitude,
                                  last.latitude, last.longitude)
    IN (((arc * KM_PER_DEG) \div KNOTS_TO_KMH) * 60) \div dt_min

SeedSpeed(prev, last) ==
    LET dt_min == Max2(60, last.timestamp - prev.timestamp)
        arc == haversine_distance(prev.latitude, prev.longitude,
                                  last.latitude, last.longitude)
    IN Max2(MIN_SPEED_KNOTS,
            Min2(MAX_SPEED_KNOTS, (((arc * KM_PER_DEG) \div KNOTS_TO_KMH) * 60) \div dt_min))

\* line 104
SeedHeading_circular(prev, last) ==
    IF prev.latitude = last.latitude /\ prev.longitude # last.longitude THEN 0
    ELSE calculate_bearing(prev.latitude, prev.longitude, last.latitude, last.longitude)

SeedHeading(prev, last) ==
    calculate_bearing(prev.latitude, prev.longitude, last.latitude, last.longitude)

\* the seeded <<lat, lon, heading, speed>> of a call that gets past lines 85-108
Seeded(a) ==
    IF Len(a.history) >= 2
    THEN LET last == a.history[Len(a.history)]
             prev == a.history[Len(a.history) - 1]
         IN <<last.latitude, last.longitude, SeedHeading(prev, last), SeedSpeed(prev, last)>>
    ELSE <<a.start[2], a.start[1], a.heading[1], a.speed[1]>>

\* line 111: the test of the start position
StartNavigable_skipped(la, lo) == TRUE

StartNavigable(la, lo) == _is_water(la, lo)

\* line 123: S = int(hours_ahead / step_hours)
StepCount(hours_ahead, step_hours) == hours_ahead \div step_hours

\* lines 97-104 and 283-287: the last two records are indexed by
\* "latitude" and "longitude"; a missing key raises KeyError
LastTwoLocated(history) ==
    /\ history[Len(history)].has_position
    /\ history[Len(history) - 1].has_position

\* lines 81-134: argument handling, the early returns and the allocation
MCStart(a) ==
    /\ pc = "idle"
    /\ call' = a
    /\ UNCHANGED registry
    /\ IF Len(a.history) = 1
       THEN \* lines 87-95: [[lon, lat]] of the arguments
            /\ pc' = "done"
            /\ result' = Degenerate(a.start)
            /\ NoArrays
       ELSE IF Len(a.history) = 0
               /\ (a.start = None \/ a.heading = None \/ a.speed = None)
       THEN \* lines 107-108
            /\ pc' = "done"
            /\ result' = Raised
            /\ NoArrays
       ELSE IF Len(a.history) >= 2 /\ ~LastTwoLocated(a.history)
       THEN \* lines 98, 102: KeyError
            /\ pc' = "done"
            /\ result' = Raised
            /\ NoArrays
       ELSE LET sd == Seeded(a) IN
            IF ~StartNavigable(sd[1], sd[2])
            THEN \* lines 111-119
                 /\ pc' = "done"
                 /\ result' = Degenerate(<<sd[2], sd[1]>>)
                 /\ NoArrays
            ELSE LET n == a.num_simulations
                     st == StepCount(a.hours_ahead, a.step_hours)
                 IN /\ pc' = "loop"
                    /\ result' = NoResult
                    /\ lat' = sd[1] /\ lon' = sd[2]
                    /\ N' = n /\ S' = st
                    /\ lats' = [i \in 1..n |-> [k \in 0..st |-> IF k = 0 THEN sd[1] ELSE Uninit]]
                    /\ lons' = [i \in 1..n |-> [k \in 0..st |-> IF k = 0 THEN sd[2] ELSE Uninit]]
                    /\ hdg' = [i \in 1..n |-> sd[3]]
                    /\ spd' = [i \in 1..n |-> sd[4]]
                    /\ valid_mask' = [i \in 1..n |-> TRUE]
                    /\ s' = 1
                    /\ noise' = <<>>
                    /\ water_tests' = [i \in 1..n |-> 0]
                    /\ iters' = 0
                    /\ dead_since' = [i \in 1..n |-> 0]

\* the alive trials, and the position of trial i among them (boolean-mask
\* indexing keeps index order)
Alive(mask) == {i \in DOMAIN mask : mask[i]}
Rank(mask, i) == Cardinality({j \in Alive(mask) : j <= i})
Nth(mask, r) == CHOOSE i \in Alive(mask) : Rank(mask, i) = r

\* vec[mask]: the entries of the alive trials, compacted
Gather_prefix(vec, mask) == [r \in 1..Cardinality(Alive(mask)) |-> vec[r]]

Gather(vec, mask) == [r \in 1..Cardinality(Alive(mask)) |-> vec[Nth(mask, r)]]

\* vec[mask] = vals
Scatter(vec, mask, vals) ==
    [i \in DOMAIN vec |-> IF mask[i] THEN vals[Rank(mask, i)] ELSE vec[i]]

\* lines 143-144: perturb and wrap the heading.  np.mod takes the exact fmod
\* remainder and adds 360 to a negative one; for the tiny negative sum the
\* addition rounds to 360.0 itself
NewHeading(h, dh, residue) ==
    IF h + dh = 0 /\ residue < 0 THEN 360 ELSE (h + dh) % 360

\* lines 146-147: perturb and clip the speed (factor in percent)
NewSpeed_unclipped(sp, factor) == (sp * factor) \div 100

NewSpeed(sp, factor) ==
    Max2(MIN_SPEED_KNOTS, Min2(MAX_SPEED_KNOTS, (sp * factor) \div 100))

\* lines 155-167: stepped latitude with the drift offset added
StepLat(la, h, arc, step_hours) == DestLat(la, h, arc) + DriftY(la) * step_hours

\* lines 155-168: stepped longitude, wrapped, with the drift offset added
StepLon_drift_only(la, lo, h, arc, step_hours) == lo + DriftX(la) * step_hours

StepLon(la, lo, h, arc, step_hours) ==
    WrapLon540(DestLonRaw(la, lo, h, arc)) + DriftX(la) * step_hours

\* line 172: valid_mask[valid_mask] = new_mask
NextMask_prefix(mask, new_mask) ==
    [i \in DOMAIN mask |-> IF i <= Len(new_mask) THEN new_mask[i] ELSE mask[i]]

NextMask_revived(mask, new_mask) ==
    [i \in DOMAIN mask |-> IF mask[i] THEN new_mask[Rank(mask, i)] ELSE TRUE]

NextMask(mask, new_mask) == Scatter(mask, mask, new_mask)

\* line 171: whether a stepped position keeps its trial alive
KeepsAlive_reaimed(la, lo) == _is_water(la, lo) \/ _is_water(la - 100, lo)

KeepsAlive(la, lo) == _is_water(la, lo)

\* line 171: np.vectorize(_is_water) over the alive trials' positions calls
\* _is_water once per alive trial
WaterTests(mask) == [i \in DOMAIN mask |-> IF mask[i] THEN 1 ELSE 0]

\* lines 175-178: the cells of the retired trials from column k on
NanFill(mat, mask, k) ==
    [i \in DOMAIN mat |->
        IF mask[i] THEN mat[i]
        ELSE [c \in DOMAIN mat[i] |-> IF c >= k THEN NaN ELSE mat[i][c]]]

\* column k of the rows of mat
Column(mat, k) == [i \in DOMAIN mat |-> mat[i][k]]

\* mat[mask, k] = vals
SetColumn(mat, mask, k, vals) ==
    [i \in DOMAIN mat |->
        IF mask[i] THEN [mat[i] EXCEPT ![k] = vals[Rank(mask, i)]] ELSE mat[i]]

\* range(1, S+1): the next value of the loop variable
NextS_stuck(k) == k

NextS(k) == k + 1

\* lines 136-178: one iteration of the step loop
MCStep ==
    /\ pc = "loop"
    /\ s <= S
    /\ UNCHANGED registry
    /\ Alive(valid_mask) # {}
    /\ \E smp \in [1..Cardinality(Alive(valid_mask)) ->
                      NoiseSamples(call.heading_sigma, call.speed_sigma)] :
        LET n_valid == Cardinality(Alive(valid_mask))
            hdg1 == Scatter(hdg, valid_mask,
                        [r \in 1..n_valid |-> NewHeading(Gather(hdg, valid_mask)[r], smp[r][1], smp[r][3])])
            spd1 == Scatter(spd, valid_mask,
                        [r \in 1..n_valid |-> NewSpeed(Gather(spd, valid_mask)[r], smp[r][2])])
            dist == [i \in DOMAIN spd1 |-> ArcOf(spd1[i], call.step_hours)]
            prevlat == Gather(Column(lats, s - 1), valid_mask)
            prevlon == Gather(Column(lons, s - 1), valid_mask)
            theta == Gather(hdg1, valid_mask)
            delta == Gather(dist, valid_mask)
            newlat == [r \in 1..n_valid |->
                          StepLat(prevlat[r], theta[r], delta[r], call.step_hours)]
            newlon == [r \in 1..n_valid |->
                          StepLon(prevlat[r], prevlon[r], theta[r], delta[r], call.step_hours)]
            new_mask == [r \in 1..n_valid |-> KeepsAlive(newlat[r], newlon[r])]
            mask1 == NextMask(valid_mask, new_mask)
        IN /\ hdg' = hdg1
           /\ spd' = spd1
           /\ valid_mask' = mask1
           /\ lats' = NanFill(SetColumn(lats, valid_mask, s, newlat), mask1, s)
           /\ lons' = NanFill(SetColumn(lons, valid_mask, s, newlon), mask1, s)
           /\ noise' = smp
           /\ water_tests' = WaterTests(valid_mask)
           /\ dead_since' = [i \in Trials |->
                                IF dead_since[i] = 0 /\ ~mask1[i] THEN s ELSE dead_since[i]]
    /\ s' = NextS(s)
    /\ iters' = iters + 1
    /\ UNCHANGED <<pc, call, lat, lon, N, S, result>>

\* lines 139-140 and 180-218: leave the loop and aggregate
MCFinish ==
    /\ pc = "loop"
    /\ UNCHANGED registry
    /\ (s > S \/ Alive(valid_mask) = {})
    /\ pc' = "done"
    /\ result' = MCResult(lats, lons, valid_mask, S, call.step_hours, <<lon, lat>>)
    /\ UNCHANGED <<call, lat, lon, N, S, lats, lons, hdg, spd, valid_mask, s,
                   noise, water_tests, iters, dead_since>>

\* ----------------------------------------------------------- forecast_path
\* lines 289-302: base speed from the last two records, in hundredths of a knot
FPSpeed_halfhour(prev, last) ==
    LET td == last.timestamp - prev.timestamp
        dt_min == IF td > 0 THEN td ELSE 30
        arc == haversine_distance(prev.latitude, prev.longitude,
                                  last.latitude, last.longitude)
    IN Max2(MIN_SPEED_KNOTS,
            Min2(MAX_SPEED_KNOTS, (((arc * KM_PER_DEG) \div KNOTS_TO_KMH) * 60) \div dt_min))

FPSpeed(prev, last) ==
    LET td == last.timestamp - prev.timestamp
        dt_min == IF td > 0 THEN td ELSE 60
        arc == haversine_distance(prev.latitude, prev.longitude,
                                  last.latitude, last.longitude)
    IN Max2(MIN_SPEED_KNOTS,
            Min2(MAX_SPEED_KNOTS, (((arc * KM_PER_DEG) \div KNOTS_TO_KMH) * 60) \div dt_min))

\* line 312: steps = max(1, ceil(hours_ahead / step_hours))
FPSteps(hours_ahead, step_hours) ==
    Max2(1, (hours_ahead + step_hours - 1) \div step_hours)

\* lines 314-338: the reference points <<lat, lon>> of steps 0..k
RECURSIVE FPRef(_, _, _, _)
FPRef(init, bearing, arc, k) ==
    IF k = 0 THEN init
    ELSE LET p == FPRef(init, bearing, arc, k - 1)
         IN move_point(p[1], p[2], bearing, arc)

\* the path that leaves each reference point along `side`, as <<lon, lat>> points
FPPath(init, bearing, side, arc, steps) ==
    [k \in 1..(steps + 1) |->
        IF k = 1 THEN ScalePt(<<init[2], init[1]>>)
        ELSE LET p == FPRef(init, bearing, arc, k - 2)
                 q == move_point(p[1], p[2], side, arc)
             IN ScalePt(<<q[2], q[1]>>)]

\* lines 260-266: the histories for which forecast_path returns {}
ReturnsEmpty_short(history) == Len(history) < 2

ReturnsEmpty(history) ==
    Len(history) = 0 \/ (Len(history) = 1 /\ ~history[1].has_position)

\* lines 260-351
ForecastPathResult(a) ==
    IF ReturnsEmpty(a.history) THEN EmptyDict
    ELSE IF Len(a.history) >= 2 /\ ~LastTwoLocated(a.history) THEN Raised
    ELSE IF Len(a.history) < 2
    THEN LET p == <<a.history[1].longitude, a.history[1].latitude>>
         IN [ status |-> "ok", central_path |-> <<ScalePt(p)>>,
              left_path |-> <<ScalePt(p)>>, right_path |-> <<ScalePt(p)>>,
              forecast_times |-> <<0>>, cone_polygon |-> None, runs_kept |-> None ]
    ELSE LET last == a.history[Len(a.history)]
             prev == a.history[Len(a.history) - 1]
             bearing_deg == calculate_bearing(prev.latitude, prev.longitude,
                                              last.latitude, last.longitude)
             bearing_left == (bearing_deg + a.heading_variation) % 360
             bearing_right == (bearing_deg - a.heading_variation + 360) % 360
             arc == ArcOf(FPSpeed(prev, last), a.step_hours)
             steps == FPSteps(a.hours_ahead, a.step_hours)
             init == <<last.latitude, last.longitude>>
             central == FPPath(init, bearing_deg, bearing_deg, arc, steps)
             left == FPPath(init, bearing_deg, bearing_left, arc, steps)
             right == FPPath(init, bearing_deg, bearing_right, arc, steps)
         IN [ status |-> "ok", central_path |-> central, left_path |-> left,
              right_path |-> right,
              forecast_times |-> ForecastTimes(steps, a.step_hours),
              cone_polygon |-> Some(ConePolygon(left, right)), runs_kept |-> None ]

ForecastPath(a) ==
    /\ pc = "idle"
    /\ call' = a
    /\ UNCHANGED registry
    /\ pc' = "done"
    /\ result' = ForecastPathResult(a)
    /\ NoArrays

\* ------------------------------------------------------------ Submarine
\* submarine.py 21-22 and 23: the mask region and its cell size, in
\* hundredths of a degree
SUB_LON_MIN == 9000
SUB_LON_MAX == 14000
SUB_LAT_MIN == 500
SUB_LAT_MAX == 4500
SUB_CELL == 2

\* submarine.py 29-33: the cells [y, x] of the mask that are set to False
BathyLand(y, x) ==
    \/ (y < 100 /\ x < 100)
    \/ (y < 50 /\ 100 <= x /\ x < 150)
    \/ (50 <= y /\ y < 100 /\ 100 <= x /\ x < 150)
    \/ (100 <= y /\ y < 150 /\ x < 50)
    \/ (100 <= y /\ y < 150 /\ 50 <= x /\ x < 100)

\* submarine.py 36-48: outside the region counts as land
_is_on_land(la, lo) ==
    IF ~(SUB_LAT_MIN <= la /\ la <= SUB_LAT_MAX /\ SUB_LON_MIN <= lo /\ lo <= SUB_LON_MAX)
    THEN TRUE
    ELSE BathyLand((la - SUB_LAT_MIN) \div SUB_CELL, (lo - SUB_LON_MIN) \div SUB_CELL)

\* a key that is absent from a record (for the identifier fields, where the
\* code only tests truthiness, also a None value)
Missing == "<missing>"

\* the values of a coordinate field: a number (hundredths of a degree), a
\* non-numeric string, an object that is neither a string nor a number, or
\* no key at all
Num(v) == <<"num", v>>
NotNumeric == <<"text", 0>>
NotScalar == <<"list", 0>>
NoKey == <<"absent", 0>>
\* the empty string as a coordinate
BlankField == <<"blank", 0>>

\* the values of a timestamp field, with the time in minutes: a datetime, a
\* string pandas can parse, a string it cannot parse, an object that is no date
\* at all (a dict), or no key at all
Datetime(t) == <<"datetime", t>>
DateString(t) == <<"str", t>>
BadDateString == <<"badstr", 0>>
NotADate == <<"other", 0>>
NoTimestamp == <<"absent", 0>>

\* str.lower() on the event types used here
Lower(e) ==
    CASE e = "Departure" -> "departure"
      [] e = "ARRIVAL" -> "arrival"
      [] OTHER -> e

\* submarine.py 59
VALID_EVENTS == {"departure", "arrival", "sighting"}

\* a record of the test fixtures: Jin1 seen in the test area, no event
PlainRecord ==
    [ sub_id |-> "Jin1", id |-> Missing, name |-> Missing,
      latitude |-> Num(1500), longitude |-> Num(11000),
      timestamp |-> Datetime(0), event_type |-> Missing, color |-> Missing ]

\* records that update_from_record accepts
GoodRecords ==
    { [PlainRecord EXCEPT !.event_type = "departure", !.color = "red"],
      [PlainRecord EXCEPT !.event_type = "ARRIVAL", !.timestamp = DateString(60)],
      [PlainRecord EXCEPT !.event_type = "sighting", !.latitude = Num(1510),
                          !.timestamp = Datetime(120)],
      [PlainRecord EXCEPT !.latitude = Num(1520), !.timestamp = NoTimestamp],
      [PlainRecord EXCEPT !.event_type = "Departure", !.latitude = NoKey,
                          !.longitude = NoKey, !.timestamp = NoTimestamp] }

\* records that update_from_record rejects: unknown event type, on land,
\* outside the mask region, out of range, not a number, invalid timestamps
BadRecords ==
    { [PlainRecord EXCEPT !.event_type = "refit"],
      [PlainRecord EXCEPT !.event_type = "sighting", !.latitude = Num(600),
                          !.longitude = Num(9100)],
      [PlainRecord EXCEPT !.event_type = "departure", !.latitude = Num(0),
                          !.longitude = Num(0)],
      [PlainRecord EXCEPT !.event_type = "arrival", !.latitude = Num(9500)],
      [PlainRecord EXCEPT !.latitude = NotNumeric],
      [PlainRecord EXCEPT !.latitude = NotScalar],
      [PlainRecord EXCEPT !.event_type = "sighting", !.latitude = Num(1530),
                          !.timestamp = BadDateString],
      [PlainRecord EXCEPT !.latitude = Num(1540), !.timestamp = NotADate] }

SubRecords == GoodRecords \cup BadRecords

\* submarine.py 61-68
NewSubmarine ==
    [ status |-> "IN_PORT", last_lat |-> None, last_lon |-> None, last_time |-> None,
      color |-> None, history |-> <<>> ]

\* the outcome of a method: the object afterwards and whether it raised
Returned(o) == [obj |-> o, raised |-> FALSE]
Raises(o) == [obj |-> o, raised |-> TRUE]

\* float(x) raises for a non-numeric string (ValueError) and for an object
\* that is not a scalar (TypeError)
IsFloat(x) == x[1] = "num"

\* submarine.py 70-88: _clamp_coordinates raises ValueError
ClampRaises(la, lo) ==
    \/ ~(-9000 <= la /\ la <= 9000 /\ -18000 <= lo /\ lo <= 18000)
    \/ _is_on_land(la, lo)

\* submarine.py 90-101: _validate_timestamp raises ValueError
TimestampRaises(ts) == ts[1] \in {"badstr", "other"}

\* submarine.py 105-111: the position part of _push
PushPosition(o, record) ==
    IF record.latitude # NoKey /\ record.longitude # NoKey
    THEN IF ~IsFloat(record.latitude) \/ ~IsFloat(record.longitude) THEN Raises(o)
         ELSE IF ClampRaises(record.latitude[2], record.longitude[2]) THEN Raises(o)
         ELSE Returned([o EXCEPT !.last_lat = Some(record.latitude[2]),
                                 !.last_lon = Some(record.longitude[2])])
    ELSE Returned(o)

\* submarine.py 103-119: _push
Push(o, record) ==
    LET pos == PushPosition(o, record) IN
    IF pos.raised THEN pos
    ELSE IF record.timestamp # NoTimestamp /\ TimestampRaises(record.timestamp)
    THEN Raises(pos.obj)
    ELSE LET timed == IF record.timestamp # NoTimestamp
                      THEN [pos.obj EXCEPT !.last_time = Some(record.timestamp[2])]
                      ELSE pos.obj
             coloured == IF record.color # Missing
                         THEN [timed EXCEPT !.color = Some(record.color)]
                         ELSE timed
         IN Returned([coloured EXCEPT !.history = Append(@, record)])

\* submarine.py 139-142: the status an event type sets
EventStatus_sighting_sails(status, event_type) ==
    IF event_type \in {"departure", "sighting"} THEN "AT_SEA"
    ELSE IF event_type = "arrival" THEN "IN_PORT"
    ELSE status

EventStatus(status, event_type) ==
    IF event_type = "departure" THEN "AT_SEA"
    ELSE IF event_type = "arrival" THEN "IN_PORT"
    ELSE status

\* submarine.py 121-153: update_from_record
UpdateFromRecord(o, record) ==
    IF record.event_type # Missing
    THEN LET event_type == Lower(record.event_type) IN
         IF event_type \notin VALID_EVENTS THEN Raises(o)
         ELSE Push([o EXCEPT !.status = EventStatus(@, event_type)], record)
    ELSE Push(o, record)

\* submarine.py 155-158
at_sea(o) == o.status = "AT_SEA"

\* no call made yet
NoSubCall == [n |-> 0, record |-> PlainRecord, raised |-> FALSE, rejected |-> 0]

\* one call of update_from_record on the submarine
SubUpdate ==
    /\ sub_call.n < MaxCalls
    /\ \E record \in SubRecords :
          LET out == UpdateFromRecord(sub, record) IN
          /\ sub' = out.obj
          /\ sub_call' = [ n |-> sub_call.n + 1, record |-> record, raised |-> out.raised,
                           rejected |-> sub_call.rejected + (IF out.raised THEN 1 ELSE 0) ]
    /\ UNCHANGED <<engine, fleet, fleet_call, run>>

\* ------------------------------------------------------- SubmarineFleet
\* fleet.py 66: record.get(k) in ("", None)
Falsy(v) == v \in {Missing, ""}
BlankCoordinate(x) == x \in {NoKey, BlankField}

\* records handed to the fleet: good ones for two submarines, and ones with
\* a missing or blank required field, coordinates out of range, on land or
\* not numeric, an unknown event type, and a timestamp that cannot be parsed
FleetRecords ==
    { [PlainRecord EXCEPT !.event_type = "departure", !.color = "red"],
      [PlainRecord EXCEPT !.sub_id = "Jin2", !.event_type = "arrival", !.color = "blue"],
      [PlainRecord EXCEPT !.event_type = "sighting", !.latitude = Num(1510),
                          !.timestamp = DateString(60)],
      [PlainRecord EXCEPT !.sub_id = Missing],
      [PlainRecord EXCEPT !.sub_id = ""],
      [PlainRecord EXCEPT !.sub_id = "Jin2", !.latitude = NoKey],
      [PlainRecord EXCEPT !.sub_id = "Jin2", !.longitude = BlankField],
      [PlainRecord EXCEPT !.sub_id = "Jin2", !.latitude = Num(9100)],
      [PlainRecord EXCEPT !.event_type = "departure", !.latitude = Num(0),
                          !.longitude = Num(0)],
      [PlainRecord EXCEPT !.sub_id = "Jin2", !.event_type = "unknown"],
      [PlainRecord EXCEPT !.sub_id = "Jin2", !.latitude = NotNumeric],
      [PlainRecord EXCEPT !.sub_id = "Jin2", !.latitude = NotScalar],
      [PlainRecord EXCEPT !.sub_id = "Jin2", !.timestamp = BadDateString] }

FleetIds == {"Jin1", "Jin2"}

\* fleet.py 17-20: SubmarineFleet(): the ids tracked and their objects
EmptyFleet == [ids |-> {}, objs |-> [i \in FleetIds |-> NewSubmarine]]

\* fleet.py 87-98: the timestamp is parsed, or dropped when it cannot be
Normalised(record) ==
    IF record.timestamp[1] \in {"datetime", "str"}
    THEN [record EXCEPT !.timestamp = Datetime(record.timestamp[2])]
    ELSE [record EXCEPT !.timestamp = NoTimestamp]

\* fleet.py 71-77: the exceptions float() raises that the loop catches
\* (ValueError) and that it does not catch (TypeError)
FloatEscapes(x) == x = NotScalar

\* fleet.py 64-112: the loop body for one record; raised tells that an
\* exception left the loop
FleetRecord(f, record) ==
    IF Falsy(record.sub_id) \/ BlankCoordinate(record.latitude)
          \/ BlankCoordinate(record.longitude)
    THEN Returned(f)
    ELSE IF FloatEscapes(record.latitude)
    THEN Raises(f)
    ELSE IF ~IsFloat(record.latitude)
    THEN Returned(f)
    ELSE IF FloatEscapes(record.longitude)
    THEN Raises(f)
    ELSE IF ~IsFloat(record.longitude)
    THEN Returned(f)
    ELSE IF ~(-9000 <= record.latitude[2] /\ record.latitude[2] <= 9000
              /\ -18000 <= record.longitude[2] /\ record.longitude[2] <= 18000)
    THEN Returned(f)
    ELSE LET sub_id == record.sub_id
             known == sub_id \in f.ids
             out == UpdateFromRecord(IF known THEN f.objs[sub_id] ELSE NewSubmarine,
                                     Normalised(record))
         IN IF known
            THEN Returned([f EXCEPT !.objs[sub_id] = out.obj])
            ELSE IF out.raised THEN Returned(f)
            ELSE Returned([ids |-> f.ids \cup {sub_id},
                           objs |-> [f.objs EXCEPT ![sub_id] = out.obj]])

\* fleet.py 51-115: the loop over the batch from record k on; done counts
\* the records whose loop body ran to its end
RECURSIVE FleetLoop(_, _, _)
FleetLoop(f, records, k) ==
    IF k > Len(records) THEN [obj |-> f, raised |-> FALSE, done |-> Len(records)]
    ELSE LET out == FleetRecord(f, records[k]) IN
         IF out.raised THEN [obj |-> f, raised |-> TRUE, done |-> k - 1]
         ELSE FleetLoop(out.obj, records, k + 1)

NoFleetCall == [n |-> 0, records |-> <<>>, raised |-> FALSE, done |-> 0, seen |-> 0]

\* the batches of at most n records
Batches(records, n) == SeqsUpTo(records, n) \ {<<>>}

\* one call of update_from_records
FleetUpdate ==
    /\ fleet_call.seen < MaxBatch
    /\ \E records \in Batches(FleetRecords, MaxBatch - fleet_call.seen) :
          LET out == FleetLoop(fleet, records, 1) IN
          /\ fleet' = out.obj
          /\ fleet_call' = [ n |-> fleet_call.n + 1, records |-> records,
                             raised |-> out.raised, done |-> out.done,
                             seen |-> fleet_call.seen + Len(records) ]
    /\ UNCHANGED <<engine, sub, sub_call, run>>

\* ------------------------------------------------------------------ main
\* the identifier columns an input file may use
IdFields == {"sub_id", "id", "name"}

\* a row whose identifier is in the given column
Keyed(record, field, value) ==
    [record EXCEPT !.sub_id = IF field = "sub_id" THEN value ELSE Missing,
                   !.id = IF field = "id" THEN value ELSE Missing,
                   !.name = IF field = "name" THEN value ELSE Missing]

\* the rows of an input file: departures as create_simulated_data makes them
\* (main.py 121-135), sightings, and rows whose position is outside the mask
MainRows ==
    { [PlainRecord EXCEPT !.event_type = "departure"],
      [PlainRecord EXCEPT !.event_type = "sighting", !.latitude = Num(1510),
                          !.timestamp = Datetime(60)],
      [PlainRecord EXCEPT !.event_type = "arrival", !.latitude = Num(0),
                          !.longitude = Num(0)] }

MainRecords(field) == { Keyed(r, field, v) : r \in MainRows, v \in FleetIds }

\* main.py 55: record.get("sub_id") or record.get("id") or "Unknown"
MainKey(record) ==
    IF ~Falsy(record.sub_id) THEN record.sub_id
    ELSE IF ~Falsy(record.id) THEN record.id
    ELSE "Unknown"

\* prediction.py 395: record.get("id") or record.get("submarine_id") or
\* record.get("name"), where no row has a submarine_id column; Missing
\* stands for None
ForecastKey(record) ==
    IF ~Falsy(record.id) THEN record.id
    ELSE IF ~Falsy(record.name) THEN record.name
    ELSE Missing

MainIds == FleetIds \cup {"Unknown"}

\* main.py 53-61: the Submarine objects built from the rows from row k on; a
\* Submarine is created before its first record is validated
RECURSIVE MainSubs(_, _, _)
MainSubs(f, records, k) ==
    IF k > Len(records) THEN f
    ELSE LET key == MainKey(records[k])
             out == UpdateFromRecord(f.objs[key], records[k])
         IN MainSubs([ids |-> f.ids \cup {key}, objs |-> [f.objs EXCEPT ![key] = out.obj]],
                     records, k + 1)

\* main.py 65-74: the records of all histories
ValidatedHistories(f) ==
    UNION { {f.objs[i].history[k] : k \in DOMAIN f.objs[i].history} : i \in f.ids }

\* prediction.py 393-414: the keys of the forecasts returned, one entry for
\* each group of records
ForecastAllSubs(records) == { ForecastKey(r) : r \in records } \ {Missing}

NoRun ==
    [ n |-> 0, field |-> "", records |-> <<>>,
      subs |-> [ids |-> {}, objs |-> [i \in MainIds |-> NewSubmarine]],
      forecasts |-> {} ]

\* main.py 33-119: one run over an input file
Main ==
    /\ run.n = 0
    /\ \E field \in IdFields :
          \E records \in SeqsUpTo(MainRecords(field), MaxBatch) :
             LET subs == MainSubs(NoRun.subs, records, 1) IN
             run' = [ n |-> 1, field |-> field, records |-> records, subs |-> subs,
                      forecasts |-> ForecastAllSubs(ValidatedHistories(subs)) ]
    /\ UNCHANGED <<engine, sub, sub_call, fleet, fleet_call>>

\* ------------------------------------------------------- specification
Init ==
    /\ pc = "idle"
    /\ call = NoCall
    /\ lat = 0 /\ lon = 0 /\ N = 0 /\ S = 0
    /\ lats = <<>> /\ lons = <<>> /\ hdg = <<>> /\ spd = <<>>
    /\ valid_mask = <<>> /\ s = 0
    /\ result = NoResult
    /\ noise = <<>> /\ water_tests = <<>> /\ iters = 0 /\ dead_since = <<>>
    /\ sub = NewSubmarine
    /\ sub_call = NoSubCall
    /\ fleet = EmptyFleet
    /\ fleet_call = NoFleetCall
    /\ run = NoRun

MCStartAny == pc = "idle" /\ \E a \in MCCalls : MCStart(a)
ForecastPathAny == pc = "idle" /\ \E a \in FPCalls : ForecastPath(a)

Next == MCStartAny \/ MCStep \/ MCFinish \/ ForecastPathAny

Spec == Init /\ [][Next]_vars

\* a Submarine object under a sequence of update_from_record calls
SubNext == SubUpdate
SubSpec == Init /\ [][SubNext]_vars

\* a SubmarineFleet under a sequence of update_from_records calls
FleetNext == FleetUpdate
FleetSpec == Init /\ [][FleetNext]_vars

\* one run of main
MainNext == Main
MainSpec == Init /\ [][MainNext]_vars

\* ================================================================ claims
IsMC == call.fn = "monte_carlo_simulation"
IsFP == call.fn = "forecast_path"
Done == pc = "done"
HasPaths == Done /\ result.status = "ok"

\* a monte_carlo_simulation result built by the aggregation of lines 192-218
FullMC == HasPaths /\ IsMC /\ result.runs_kept # None /\ result.runs_kept # Some(0)

\* the trials that were alive at step k
NotDeadAt(k) == {i \in DOMAIN dead_since : dead_since[i] = 0 \/ dead_since[i] > k}

\* the points of a path
Points(path) == {path[k] : k \in DOMAIN path}

\* C1: once a trial's alive flag is false at step s it is false at every
\* later step, its cells from column s on hold NaN, and every entry k of
\* central_path, left_path and right_path is an aggregate over trials that
\* were alive at step k only (so is every point of cone_polygon).
C1_DeadStaysExcluded ==
    /\ \A i \in DOMAIN dead_since :
          dead_since[i] # 0 =>
             /\ ~valid_mask[i]
             /\ \A k \in dead_since[i]..S : lats[i][k] = NaN /\ lons[i][k] = NaN
    /\ FullMC =>
          /\ \A k \in 0..S :
                \E R \in (SUBSET NotDeadAt(k)) \ {{}} :
                    /\ result.central_path[k + 1] = CentralPoint(lats, lons, R, k)
                    /\ result.left_path[k + 1] = LeftPoint(lats, lons, R, k)
                    /\ result.right_path[k + 1] = RightPoint(lats, lons, R, k)
          /\ Points(result.cone_polygon[1])
                \subseteq Points(result.left_path) \cup Points(result.right_path)

\* a run in which a trial died before the last step and another survived
C1_Witness ==
    /\ FullMC /\ S >= 2
    /\ \E i \in DOMAIN dead_since : dead_since[i] # 0 /\ dead_since[i] < S

\* C2 (as claimed): entry k of each path is the aggregate over exactly the
\* trials alive at step k, a trial that dies later included.
C2_AliveAtStep ==
    FullMC =>
       \A k \in 0..S :
          /\ result.central_path[k + 1] = CentralPoint(lats, lons, NotDeadAt(k), k)
          /\ result.left_path[k + 1] = LeftPoint(lats, lons, NotDeadAt(k), k)
          /\ result.right_path[k + 1] = RightPoint(lats, lons, NotDeadAt(k), k)

\* C2 (amended): entry k of each path is the aggregate over exactly the
\* trials that are alive after the last step; a trial that dies at any step
\* is left out of every entry, also of the steps at which it was alive.
C2_FinalSurvivors ==
    FullMC =>
       /\ Len(result.central_path) = S + 1
       /\ Len(result.left_path) = S + 1
       /\ Len(result.right_path) = S + 1
       /\ \A k \in 0..S :
             /\ result.central_path[k + 1] = CentralPoint(lats, lons, NotDeadAt(S), k)
             /\ result.left_path[k + 1] = LeftPoint(lats, lons, NotDeadAt(S), k)
             /\ result.right_path[k + 1] = RightPoint(lats, lons, NotDeadAt(S), k)

\* a trial that was alive at step 1 and moved apart from the survivor is
\* missing from entry 1
C2_Witness ==
    /\ FullMC
    /\ \E i \in DOMAIN dead_since : dead_since[i] >= 2
    /\ result.central_path[2] # CentralPoint(lats, lons, NotDeadAt(1), 1)

\* the start position of a call that gets past the argument handling
StartResolved ==
    (Len(call.history) >= 2 /\ LastTwoLocated(call.history))
    \/ (Len(call.history) = 0 /\ call.start # None /\ call.heading # None
        /\ call.speed # None)

\* C3: a monte_carlo_simulation call whose start position is not navigable
\* does not raise and returns the single start point in every path and in
\* cone_polygon, forecast_times [0] and a kept-trial count of 0.
C3_UnnavigableStart ==
    (Done /\ IsMC /\ StartResolved /\ ~_is_water(Seeded(call)[1], Seeded(call)[2])) =>
       LET p == ScalePt(<<Seeded(call)[2], Seeded(call)[1]>>)
       IN /\ result.status = "ok"
          /\ result.central_path = <<p>>
          /\ result.left_path = <<p>>
          /\ result.right_path = <<p>>
          /\ result.cone_polygon = Some(<<p>>)
          /\ result.forecast_times = <<0>>
          /\ result.runs_kept = Some(0)

\* an unnavigable start with trials and steps asked for
C3_Witness ==
    /\ Done /\ IsMC /\ StartResolved
    /\ ~_is_water(Seeded(call)[1], Seeded(call)[2])
    /\ call.num_simulations >= 1
    /\ StepCount(call.hours_ahead, call.step_hours) >= 2
    /\ result.runs_kept = Some(0)

\* every trial of an allocated run has died
AllDied == Done /\ IsMC /\ N >= 1 /\ \A i \in DOMAIN dead_since : dead_since[i] # 0

\* the step at which the last trial died
RECURSIVE MaxOver(_, _)
MaxOver(f, K) ==
    IF K = {} THEN 0
    ELSE LET i == CHOOSE j \in K : TRUE IN Max2(f[i], MaxOver(f, K \ {i}))
LastDeath == MaxOver(dead_since, DOMAIN dead_since)

\* C4 (as claimed): when every trial has died, the result still has S + 1
\* entries per path and in forecast_times, and the entries from the step of
\* the last death on equal the central point of the last step that had an
\* alive trial.
C4_HeldAtLastValid ==
    AllDied =>
       /\ Len(result.central_path) = S + 1
       /\ Len(result.left_path) = S + 1
       /\ Len(result.right_path) = S + 1
       /\ Len(result.forecast_times) = S + 1
       /\ \A k \in LastDeath..S :
             LET held == CentralPoint(lats, lons, NotDeadAt(LastDeath - 1), LastDeath - 1)
             IN /\ result.central_path[k + 1] = held
                /\ result.left_path[k + 1] = held
                /\ result.right_path[k + 1] = held

\* C4 (amended): when every trial has died, at whatever step, the result is
\* the single-point result: each path and cone_polygon hold the start point
\* only, forecast_times is [0], runs_kept is 0; no entry is NaN.
C4_AllDeadDegenerate ==
    AllDied =>
       LET p == ScalePt(<<lon, lat>>)
       IN /\ result.status = "ok"
          /\ result.central_path = <<p>>
          /\ result.left_path = <<p>>
          /\ result.right_path = <<p>>
          /\ result.cone_polygon = Some(<<p>>)
          /\ result.forecast_times = <<0>>
          /\ result.runs_kept = Some(0)
          /\ p[1] # NaN * Scale /\ p[2] # NaN * Scale

\* the last trial died after a step at which a trial was still alive
C4_Witness == AllDied /\ N >= 2 /\ LastDeath >= 2 /\ S >= 2

\* one iteration of the step loop has just run
Stepped == pc = "loop" /\ iters' = iters + 1

\* C5: in one simulation step the new heading, speed, alive flag and
\* position of trial i are a function of trial i's own previous heading,
\* speed and position and of the noise sample drawn for it; a trial that is
\* not alive keeps its state.  No other trial's state or sample enters.
C5_TrialIndependence ==
    [][ Stepped =>
          \A i \in Trials :
             IF valid_mask[i]
             THEN LET own == noise'[Rank(valid_mask, i)]
                      h1 == NewHeading(hdg[i], own[1], own[3])
                      v1 == NewSpeed(spd[i], own[2])
                      arc == ArcOf(v1, call.step_hours)
                      la == StepLat(lats[i][s - 1], h1, arc, call.step_hours)
                      lo == StepLon(lats[i][s - 1], lons[i][s - 1], h1, arc, call.step_hours)
                      ok == _is_water(la, lo)
                  IN /\ hdg'[i] = h1
                     /\ spd'[i] = v1
                     /\ valid_mask'[i] = ok
                     /\ lats'[i][s] = IF ok THEN la ELSE NaN
                     /\ lons'[i][s] = IF ok THEN lo ELSE NaN
             ELSE /\ hdg'[i] = hdg[i]
                  /\ spd'[i] = spd[i]
                  /\ valid_mask'[i] = FALSE
       ]_vars

\* a trial stepped on its own heading and speed while a lower-numbered trial
\* with another heading was already retired
C5_Witness ==
    /\ pc = "loop" /\ iters >= 2
    /\ \E i, j \in Trials :
          /\ j < i
          /\ valid_mask[i] /\ ~valid_mask[j]
          /\ dead_since[j] < iters
          /\ hdg[i] # hdg[j]

\* C6 (as claimed): a trial is retired only after a second navigability
\* test in the same step, the one of its re-aimed position.
C6_ReaimBeforeRetire ==
    [][ Stepped =>
          \A i \in Trials : (valid_mask[i] /\ ~valid_mask'[i]) => water_tests'[i] = 2
       ]_vars

\* C6 (amended): a trial whose stepped position is not navigable is retired
\* in that same step, after the one navigability test of that position and
\* without any re-aim attempt; a trial stays alive exactly when its stepped
\* position is navigable.
C6_RetiredAtFirstFailure ==
    [][ Stepped =>
          \A i \in Trials :
             valid_mask[i] =>
                LET arc == ArcOf(spd'[i], call.step_hours)
                    la == StepLat(lats[i][s - 1], hdg'[i], arc, call.step_hours)
                    lo == StepLon(lats[i][s - 1], lons[i][s - 1], hdg'[i], arc,
                                  call.step_hours)
                IN /\ water_tests'[i] = 1
                   /\ valid_mask'[i] <=> _is_water(la, lo)
       ]_vars

\* a trial was retired by the latest step, after its single test
C6_Witness ==
    /\ pc = "loop" /\ iters >= 1
    /\ \E i \in Trials : dead_since[i] = iters /\ water_tests[i] = 1

\* C7: the step loop runs at most S iterations, the loop variable advances
\* with every iteration, each trial is tested for navigability at most twice
\* per iteration, and a call inside the loop can always take its next step
\* (another iteration or the aggregation): no step waits for a navigable
\* position.
C7_BoundedLoop ==
    /\ pc = "loop" =>
          /\ iters = s - 1
          /\ s <= S + 1
          /\ \A i \in Trials : water_tests[i] <= 2
          /\ ENABLED (MCStep \/ MCFinish)
    /\ (Done /\ IsMC) =>
          /\ iters <= S
          /\ \A i \in DOMAIN water_tests : water_tests[i] <= 2

\* a call that ran all S iterations with several trials
C7_Witness == Done /\ IsMC /\ S >= 2 /\ N >= 2 /\ iters = S

\* the start position of a call: the last record of the history when there
\* is one, else the given lat/lon
StartOf(a) ==
    IF Len(a.history) >= 1
    THEN <<a.history[Len(a.history)].longitude, a.history[Len(a.history)].latitude>>
    ELSE a.start

\* C8: in every result that has paths, central_path[0], left_path[0] and
\* right_path[0] all equal the start position.
C8_Anchored ==
    HasPaths =>
       /\ result.central_path[1] = ScalePt(StartOf(call))
       /\ result.left_path[1] = ScalePt(StartOf(call))
       /\ result.right_path[1] = ScalePt(StartOf(call))

\* C9: every result of monte_carlo_simulation, and of forecast_path for a
\* non-empty history, has a cone_polygon that is a non-empty list whose
\* first and last points are equal.
C9_ConeClosed ==
    (HasPaths /\ (IsMC \/ Len(call.history) >= 1)) =>
       /\ result.cone_polygon # None
       /\ Len(result.cone_polygon[1]) >= 1
       /\ result.cone_polygon[1][1] = result.cone_polygon[1][Len(result.cone_polygon[1])]

\* a result built from stepped paths
NonDegenerate == FullMC \/ (HasPaths /\ IsFP /\ Len(call.history) >= 2)

\* C10: in every non-degenerate result cone_polygon is right_path followed
\* by left_path in reverse order, with the first point appended once more
\* exactly when the last point of that sequence differs from the first.
C10_ConeIsRing ==
    NonDegenerate =>
       LET cone == result.cone_polygon[1]
           nr == Len(result.right_path)
           nl == Len(result.left_path)
           open == result.left_path[1] # result.right_path[1]
       IN /\ result.cone_polygon # None
          /\ Len(cone) = nr + nl + (IF open THEN 1 ELSE 0)
          /\ \A k \in 1..nr : cone[k] = result.right_path[k]
          /\ \A k \in 1..nl : cone[nr + k] = result.left_path[nl + 1 - k]
          /\ open => cone[nr + nl + 1] = result.right_path[1]

\* a cone whose two sides differ
C10_Witness ==
    /\ NonDegenerate
    /\ Len(result.right_path) >= 3
    /\ result.left_path[2] # result.right_path[2]
    /\ IsMC

\* a cell of step k >= 1 that holds a position written by the step loop
Stored(i, k) == k >= 1 /\ lats[i][k] # Uninit /\ lats[i][k] # NaN

\* C11: every position stored for an alive trial at any step, after the
\* drift offset has been added, satisfies -90 <= lat <= 90 and
\* -180 <= lon < 180.
C11_CoordinatesValid ==
    \A i \in DOMAIN lats : \A k \in DOMAIN lats[i] :
        (valid_mask[i] /\ Stored(i, k)) =>
           /\ -9000 <= lats[i][k] /\ lats[i][k] <= 9000
           /\ -18000 <= lons[i][k] /\ lons[i][k] < 18000

\* the bounded region of interest: _LAT_MIN.._LAT_MAX, _LON_MIN.._LON_MAX
InRegion(la, lo) == 500 <= la /\ la <= 4500 /\ 9000 <= lo /\ lo <= 14000

\* C12: a position outside the region of interest is not navigable: no run
\* gets past the test of a start outside the region, and a trial whose
\* stepped position is outside the region is retired.
C12_FailClosed ==
    /\ pc = "loop" => InRegion(lat, lon)
    /\ \A i \in DOMAIN lats : \A k \in DOMAIN lats[i] :
          (valid_mask[i] /\ Stored(i, k)) => InRegion(lats[i][k], lons[i][k])

\* the trials whose heading and speed were perturbed by the latest step
Perturbed == {i \in DOMAIN dead_since : dead_since[i] = 0 \/ dead_since[i] = iters}

\* C13: after the heading perturbation of every step, the heading of every
\* alive trial lies in [0, 360), for a noise sample of either sign and any
\* magnitude and for any initial heading.
C13_HeadingWrapped ==
    (IsMC /\ iters >= 1) =>
       \A i \in Perturbed : 0 <= hdg[i] /\ hdg[i] < 360

\* the speed band [MIN_SPEED_KNOTS, MAX_SPEED_KNOTS]
InBand(v) == MIN_SPEED_KNOTS <= v /\ v <= MAX_SPEED_KNOTS

\* C14: the speed used to move any alive trial at any step lies in
\* [MIN_SPEED_KNOTS, MAX_SPEED_KNOTS], whatever the initial speed and
\* whatever the multiplicative noise sample: the speed left by a step is in
\* the band and the position written by the step is the one reached at that
\* speed.
C14_SpeedClamped ==
    [][ Stepped =>
          \A i \in Trials :
             valid_mask[i] =>
                /\ InBand(spd'[i])
                /\ valid_mask'[i] =>
                      /\ lats'[i][s] = StepLat(lats[i][s - 1], hdg'[i],
                                               ArcOf(spd'[i], call.step_hours),
                                               call.step_hours)
                      /\ lons'[i][s] = StepLon(lats[i][s - 1], lons[i][s - 1], hdg'[i],
                                               ArcOf(spd'[i], call.step_hours),
                                               call.step_hours)
       ]_vars

\* a trial started below the band was moved after a zero or negative
\* multiplier
C14_Witness ==
    /\ IsMC /\ pc = "loop" /\ iters >= 1
    /\ call.speed # None /\ ~InBand(call.speed[1])
    /\ noise[1][2] <= 0
    /\ valid_mask[1] /\ spd[1] = MIN_SPEED_KNOTS
    /\ lats[1][iters] # lats[1][iters - 1] \/ lons[1][iters] # lons[1][iters - 1]

\* a call seeded from the last two records of its history
Seeding == call.fn # "" /\ Len(call.history) >= 2 /\ LastTwoLocated(call.history)
LastRec == call.history[Len(call.history)]
PrevRec == call.history[Len(call.history) - 1]

\* the second point of forecast_path's central path for base speed v
FPFirstStep(v) ==
    LET q == move_point(LastRec.latitude, LastRec.longitude,
                        calculate_bearing(PrevRec.latitude, PrevRec.longitude,
                                          LastRec.latitude, LastRec.longitude),
                        ArcOf(v, call.step_hours))
    IN ScalePt(<<q[2], q[1]>>)

\* C15: for every history of at least two records the base speed that
\* monte_carlo_simulation and forecast_path derive from it lies in
\* [MIN_SPEED_KNOTS, MAX_SPEED_KNOTS], also when the last two timestamps are
\* equal, one minute apart or decreasing; it is the speed the trials start
\* with and the speed forecast_path moves at.
C15_BaseSpeedInBand ==
    Seeding =>
       /\ IsMC =>
             /\ InBand(SeedSpeed(PrevRec, LastRec))
             /\ (pc = "loop" /\ iters = 0) =>
                   \A i \in Trials : spd[i] = SeedSpeed(PrevRec, LastRec)
       /\ IsFP =>
             /\ InBand(FPSpeed(PrevRec, LastRec))
             /\ Done => result.central_path[2] = FPFirstStep(FPSpeed(PrevRec, LastRec))

\* trials seeded from two records one minute and 0.1 degree apart
C15_Witness ==
    /\ Seeding /\ IsMC /\ pc = "loop" /\ iters = 0 /\ N >= 1
    /\ LastRec.timestamp - PrevRec.timestamp = 1
    /\ LastRec.latitude # PrevRec.latitude
    /\ InBand(spd[1])

\* every pair of consecutive records has zero elapsed time
AllZeroElapsed(history) ==
    \A k \in 1..(Len(history) - 1) : history[k + 1].timestamp = history[k].timestamp

OneHourSpeed ==
    Max2(MIN_SPEED_KNOTS,
         Min2(MAX_SPEED_KNOTS,
              (haversine_distance(PrevRec.latitude, PrevRec.longitude,
                                  LastRec.latitude, LastRec.longitude) * KM_PER_DEG)
                 \div KNOTS_TO_KMH))

C17_DegenerateHistory ==
    (Done /\ Len(call.history) <= 1 /\ (IsFP \/ call.start = None)) =>
       /\ result.status # "raised"
       /\ (Len(call.history) = 1 /\ call.history[1].has_position) =>
             result.central_path
                = <<ScalePt(<<call.history[1].longitude, call.history[1].latitude>>)>>

\* C18 (as claimed): forecast_path returns {} exactly when the history is
\* empty or its single record lacks latitude or longitude, and in every
\* other case it returns a dict with paths.
C18_EmptyOrPaths ==
    (Done /\ IsFP) =>
       IF Len(call.history) = 0
          \/ (Len(call.history) = 1 /\ ~call.history[1].has_position)
       THEN result.status = "empty"
       ELSE result.status = "ok" /\ Len(result.central_path) >= 1

\* C18 (amended): forecast_path returns {} exactly when the history is empty
\* or its single record lacks latitude or longitude; it returns a dict with
\* paths for a single record that has both and for a longer history whose
\* last two records have both; it raises KeyError for a longer history one
\* of whose last two records lacks one.
C18_EmptyPathsOrKeyError ==
    (Done /\ IsFP) =>
       IF Len(call.history) = 0
          \/ (Len(call.history) = 1 /\ ~call.history[1].has_position)
       THEN result.status = "empty"
       ELSE IF Len(call.history) >= 2 /\ ~LastTwoLocated(call.history)
       THEN result.status = "raised"
       ELSE /\ result.status = "ok"
            /\ Len(result.central_path) >= 1
            /\ Len(result.left_path) = Len(result.central_path)
            /\ Len(result.right_path) = Len(result.central_path)
            /\ Len(result.forecast_times) = Len(result.central_path)

\* {} was returned for a single record without coordinates
C18_Witness ==
    /\ Done /\ IsFP
    /\ Len(call.history) = 1 /\ ~call.history[1].has_position
    /\ result.status = "empty"

\* C19: every value returned without an exception by forecast_path and by
\* monte_carlo_simulation (as forecast_all_subs calls it) is a complete
\* result: it has central_path, left_path, right_path, forecast_times and
\* cone_polygon, none of them None.
C19_CompleteResult ==
    (Done /\ result.status # "raised") =>
       /\ result.status = "ok"
       /\ result.cone_polygon # None
       /\ Len(result.central_path) >= 1
       /\ Len(result.left_path) >= 1
       /\ Len(result.right_path) >= 1
       /\ Len(result.forecast_times) >= 1

\* a coordinate pair <<lon, lat>> outside latitude [-90, 90] or
\* longitude [-180, 180]
OutOfRange(p) == p[2] < -9000 \/ p[2] > 9000 \/ p[1] < -18000 \/ p[1] > 18000

\* a history whose timestamps decrease somewhere, or a start or history
\* coordinate out of range
InvalidInput(a) ==
    \/ \E k \in 1..(Len(a.history) - 1) :
          a.history[k + 1].timestamp < a.history[k].timestamp
    \/ \E k \in 1..Len(a.history) :
          a.history[k].has_position
             /\ OutOfRange(<<a.history[k].longitude, a.history[k].latitude>>)
    \/ (a.start # None /\ OutOfRange(a.start))

\* C20: a forecast call given a history whose timestamps decrease, or a
\* start or history coordinate outside latitude [-90, 90] or longitude
\* [-180, 180], fails with an error and returns no result.
C20_InvalidRejected ==
    (call.fn # "" /\ InvalidInput(call)) => (Done /\ result.status = "raised")

\* a monte_carlo_simulation call with heading_sigma = 0 and speed_sigma = 0
ZeroNoise == IsMC /\ call.heading_sigma = 0 /\ call.speed_sigma = 0

C24_TimesMatchPaths ==
    HasPaths =>
       /\ Len(result.central_path) = Len(result.forecast_times)
       /\ Len(result.left_path) = Len(result.forecast_times)
       /\ Len(result.right_path) = Len(result.forecast_times)
       /\ Len(result.forecast_times) >= 1
       /\ \A k \in 1..Len(result.forecast_times) :
             result.forecast_times[k] = (k - 1) * call.step_hours

\* full-length results of both functions with a step longer than an hour
C24_Witness ==
    /\ HasPaths /\ Len(result.forecast_times) >= 3 /\ call.step_hours = 6
    /\ IsFP

\* C25: within one simulation step every alive trial is processed in the
\* order: perturb heading, perturb speed, project forward along the perturbed
\* heading, add the drift vector scaled by the step duration, then test
\* navigability.  The test is applied to the position after the drift was
\* added, and the drift is added to the stochastic displacement.
C25_StepOrder ==
    [][ Stepped =>
          \A i \in Trials :
             valid_mask[i] =>
                LET own == noise'[Rank(valid_mask, i)]
                    heading1 == NewHeading(hdg[i], own[1], own[3])
                    speed1 == NewSpeed(spd[i], own[2])
                    arc == ArcOf(speed1, call.step_hours)
                    projlat == DestLat(lats[i][s - 1], heading1, arc)
                    projlon == WrapLon540(DestLonRaw(lats[i][s - 1], lons[i][s - 1],
                                                     heading1, arc))
                    driftlat == projlat + DriftY(lats[i][s - 1]) * call.step_hours
                    driftlon == projlon + DriftX(lats[i][s - 1]) * call.step_hours
                IN /\ hdg'[i] = heading1
                   /\ spd'[i] = speed1
                   /\ valid_mask'[i] = _is_water(driftlat, driftlon)
                   /\ valid_mask'[i] => lats'[i][s] = driftlat /\ lons'[i][s] = driftlon
       ]_vars

\* an alive trial whose last step had both a drift offset and a displacement
\* of its own
C25_Witness ==
    /\ IsMC /\ pc = "loop" /\ iters >= 1
    /\ \E i \in Trials :
          /\ valid_mask[i]
          /\ DriftX(lats[i][iters - 1]) # 0
          /\ lons[i][iters]
                # lons[i][iters - 1] + DriftX(lats[i][iters - 1]) * call.step_hours
          /\ lons[i][iters] # lons[i][iters - 1]

\* the number of alive trials
AliveCount(mask) == Cardinality(Alive(mask))

\* C29: the number of alive trials never increases from one step to the
\* next; the reported runs_kept is the number of trials whose position was
\* navigable at every step 1..S and lies in 0..num_simulations; the step
\* loop runs another iteration only while a trial is alive and ends before
\* step S only when no trial is alive.
C29_RunsKept ==
    [][ pc = "loop" =>
          /\ AliveCount(valid_mask') <= AliveCount(valid_mask)
          /\ Stepped => AliveCount(valid_mask) > 0
          /\ pc' = "done" =>
                /\ result'.runs_kept = Some(AliveCount(valid_mask))
                /\ 0 <= AliveCount(valid_mask)
                /\ AliveCount(valid_mask) <= call.num_simulations
                /\ Alive(valid_mask) = {i \in Trials : dead_since[i] = 0}
                /\ \A i \in Alive(valid_mask) :
                      \A k \in 1..S : _is_water(lats[i][k], lons[i][k])
                /\ iters < S <=> (AliveCount(valid_mask) = 0 /\ s <= S)
       ]_vars

\* a run that lost a trial and kept another
C29_Witness ==
    /\ FullMC /\ N >= 2 /\ S >= 2
    /\ result.runs_kept = Some(1)

\* the bearings of the consecutive pairs of a history
PairBearings(history) ==
    [k \in 1..(Len(history) - 1) |->
        calculate_bearing(history[k].latitude, history[k].longitude,
                          history[k + 1].latitude, history[k + 1].longitude)]

RECURSIVE SumSin(_, _)
SumSin(bearings, k) ==
    IF k = 0 THEN 0 ELSE SinDeg(bearings[k]) + SumSin(bearings, k - 1)

RECURSIVE SumCos(_, _)
SumCos(bearings, k) ==
    IF k = 0 THEN 0 ELSE CosDeg(bearings[k]) + SumCos(bearings, k - 1)

\* h is the circular mean of the bearings: the direction atan2 gives for the
\* sum of their unit vectors (0 for the zero vector)
IsCircularMean(h, bearings) ==
    LET sx == SumSin(bearings, Len(bearings))
        sy == SumCos(bearings, Len(bearings))
    IN IF sx = 0 /\ sy = 0 THEN h % 360 = 0
       ELSE /\ SinDeg(h) * sy - CosDeg(h) * sx = 0
            /\ SinDeg(h) * sx + CosDeg(h) * sy > 0

AllLocated(history) == \A k \in DOMAIN history : history[k].has_position

\* the second point of forecast_path's central path for heading h
FPFirstStepAlong(h) ==
    LET q == move_point(LastRec.latitude, LastRec.longitude, h,
                        ArcOf(FPSpeed(PrevRec, LastRec), call.step_hours))
    IN ScalePt(<<q[2], q[1]>>)

ResultKeys(fn, res) ==
    IF res.status # "ok" THEN {}
    ELSE IF fn = "monte_carlo_simulation"
    THEN {"central_path", "left_path", "right_path", "forecast_times", "cone_polygon",
          "runs_kept"}
    ELSE {"central_path", "left_path", "right_path", "forecast_times", "cone_polygon"}

SubCalled == sub_call'.n = sub_call.n + 1
HasPosition(record) == record.latitude # NoKey /\ record.longitude # NoKey

\* whether the latest departure/arrival record of a history is a departure
RECURSIVE LatestIsDeparture(_)
LatestIsDeparture(history) ==
    IF history = <<>> THEN FALSE
    ELSE LET event_type == Lower(history[Len(history)].event_type) IN
         IF event_type = "departure" THEN TRUE
         ELSE IF event_type = "arrival" THEN FALSE
         ELSE LatestIsDeparture(SubSeq(history, 1, Len(history) - 1))

\* C26: a new Submarine is in port; an accepted departure record sets the
\* status to AT_SEA, an accepted arrival record sets it to IN_PORT, an
\* accepted sighting record or a record without event_type updates position
\* and history and leaves the status alone; after a sequence of accepted
\* records at_sea holds exactly when the latest departure/arrival record
\* was a departure.
C26_StatusFollowsEvents ==
    [][ /\ sub_call.n = 0 => (sub.status = "IN_PORT" /\ ~at_sea(sub))
        /\ (SubCalled /\ ~sub_call'.raised) =>
              LET record == sub_call'.record
                  event_type == Lower(record.event_type)
              IN /\ event_type = "departure" => sub'.status = "AT_SEA"
                 /\ event_type = "arrival" => sub'.status = "IN_PORT"
                 /\ (event_type = "sighting" \/ record.event_type = Missing) =>
                       sub'.status = sub.status
                 /\ sub'.history = Append(sub.history, record)
                 /\ HasPosition(record) =>
                       /\ sub'.last_lat = Some(record.latitude[2])
                       /\ sub'.last_lon = Some(record.longitude[2])
                 /\ sub_call'.rejected = 0 =>
                       (at_sea(sub') <=> LatestIsDeparture(sub'.history))
      ]_vars

\* a departure, then a sighting, then a record without event type, all
\* accepted, leave the submarine at sea at the last position
C26_Witness ==
    /\ sub_call.rejected = 0 /\ Len(sub.history) = 3
    /\ Lower(sub.history[1].event_type) = "departure"
    /\ sub.history[2].event_type = "sighting"
    /\ sub.history[3].event_type = Missing
    /\ at_sea(sub)
    /\ sub.last_lat = Some(1520)

\* C28: when update_from_record raises for a record, the submarine's
\* status, last_lat, last_lon, last_time, color and history are the same as
\* before the call.
C28_RejectedLeavesState ==
    [][ (SubCalled /\ sub_call'.raised) => sub' = sub ]_vars

\* the latest step was a call of update_from_records
FleetCalled == fleet_call'.n = fleet_call.n + 1

\* a record the fleet is to tolerate: a required field missing or blank,
\* coordinates that are no numbers or out of range, or a record that
\* update_from_record rejects when the fleet passes it on
BadForFleet(record) ==
    \/ Falsy(record.sub_id)
    \/ BlankCoordinate(record.latitude) \/ BlankCoordinate(record.longitude)
    \/ ~IsFloat(record.latitude) \/ ~IsFloat(record.longitude)
    \/ UpdateFromRecord(NewSubmarine, Normalised(record)).raised

\* C27: update_from_records never raises for a batch that contains records
\* with a missing or blank sub_id, latitude or longitude, out-of-range
\* coordinates, or records that Submarine.update_from_record rejects; such
\* a record never adds a submarine, and the other records of the batch are
\* still processed.
C27_BadRecordsTolerated ==
    [][ FleetCalled =>
          LET records == fleet_call'.records IN
          /\ ~fleet_call'.raised
          /\ fleet_call'.done = Len(records)
          /\ \A sub_id \in fleet'.ids \ fleet.ids :
                \E k \in DOMAIN records :
                   records[k].sub_id = sub_id /\ ~BadForFleet(records[k])
          /\ \A k \in DOMAIN records :
                (~BadForFleet(records[k])) => records[k].sub_id \in fleet'.ids
      ]_vars

\* C30: in a run of main every submarine with at least one record accepted
\* into its history has exactly one entry in the forecasts, whichever
\* identifier field (sub_id, id or name) the records carry.
C30_EveryTrackedSubForecast ==
    run.n > 0 =>
       \A key \in run.subs.ids :
          run.subs.objs[key].history # <<>> => key \in run.forecasts
====
